---- MODULE Spec2Model ----
(***************************************************************************)
(* Model of backend/main.py: the bingo session gate and broadcast relay.   *)
(*                                                                         *)
(* The server is one asyncio process.  A handler runs without interleaving *)
(* from its invocation up to its first awaited call, and in every handler  *)
(* of main.py the only awaited call is the final sio.emit; nothing is read *)
(* or written after it.  One action therefore models one whole handler.    *)
(* sio.emit takes the set of recipients from the transport's registry at   *)
(* the moment it is called; the log `sent` records one entry per emit call *)
(* with that set of recipients.                                            *)
(***************************************************************************)
EXTENDS Integers, Sequences, FiniteSets, TLC

\* ---- bounds ----
NumSids == 3
MaxOps == 5

\* ---- program constants ----
HARDCODED_SECRET_ID == "13122025"

\* connection identifiers handed out by the transport (never reused)
Sids == 1..NumSids

\* secret_id values a client may submit to /start_session
SubmittedIds == {HARDCODED_SECRET_ID, "1312202"}

\* payloads a client may attach to master_draw / player_win; the handlers
\* never inspect them, so each event may carry the other event's payload
Payloads == {"{number:7}", "{name:Alice,type:row}"}

\* text values for /tts
Texts == {"7"}

NoSid == 0
None == "none"

VARIABLES
    session_started,  \* the module-level flag
    connected,        \* sids currently registered with the Socket.IO server
    used,             \* sids the transport has ever handed out
    sent,             \* log of sio.emit calls, oldest first
    calls             \* history of handled operations with their results

vars == <<session_started, connected, used, sent, calls>>

\* number of operations handled so far
nops == Len(calls)

\* ---- sio.emit ----
\* an emit without room= addresses every registered connection
AllRecipients(conns) == conns

\* an emit with room=sid addresses that connection's private room
RoomRecipients(conns, sid) == conns \cap {sid}

Msg(event, status, message, payload, to) ==
    [event |-> event, status |-> status, message |-> message,
     payload |-> payload, to |-> to]

\* variant: the two branches of the conditional expression are swapped
StatusOf_swapped(flag) == IF flag THEN "pending" ELSE "started"

\* 'started' if session_started else 'pending'
StatusOf(flag) == IF flag THEN "started" ELSE "pending"

\* variant: the status is taken from the flag as it was on entry
StartedBroadcast_stale(conns) ==
    [event |-> "session_status", status |-> StatusOf(session_started),
     message |-> "Session is now active!", payload |-> None, to |-> conns]

\* session_status sent by start_session
StartedBroadcast(conns) ==
    Msg("session_status", "started", "Session is now active!", None,
        AllRecipients(conns))

\* session_status sent by connect
StatusUpdate(flag, conns, sid) ==
    Msg("session_status", StatusOf(flag), "Session status update.", None,
        RoomRecipients(conns, sid))

\* variant: the error is emitted without room=sid
NotStartedError_broadcast(conns, sid) ==
    [event |-> "error", status |-> None,
     message |-> "Game has not started yet. Session ID required.",
     payload |-> None, to |-> conns]

\* error sent by a rejected master_draw / player_win
NotStartedError(conns, sid) ==
    Msg("error", None, "Game has not started yet. Session ID required.", None,
        RoomRecipients(conns, sid))

\* variant: a bingo_win is relayed only with a win-claim payload; anything
\* else is replaced by an empty payload
Relay_validated(event, data, conns) ==
    [event |-> event, status |-> None, message |-> None,
     payload |-> IF event = "bingo_win" /\ data # "{name:Alice,type:row}"
                 THEN None ELSE data,
     to |-> conns]

\* relay of an accepted event
Relay(event, data, conns) ==
    Msg(event, None, None, data, AllRecipients(conns))

\* one handled operation: who called, with what, the HTTP status code (0 for
\* a Socket.IO event, which has no response) and the length of the emit log
\* when the handler returned
Handled(op, sid, arg, code, body, nsent) ==
    [op |-> op, sid |-> sid, arg |-> arg, code |-> code, body |-> body,
     nsent |-> nsent]

\* the operation handled by the latest step
last == IF calls = <<>> THEN Handled("init", NoSid, None, 0, None, 0)
                        ELSE calls[Len(calls)]

\* what a connection is sent, in order: the emits addressed to it.  The
\* transport queues packets per connection and writes them first in, first out
Inbox(sid) == SelectSeq(sent, LAMBDA m : sid \in m.to)

Init ==
    /\ session_started = FALSE
    /\ connected = {}
    /\ used = {}
    /\ sent = <<>>
    /\ calls = <<>>

\* ---- POST /start_session ----
\* variant: the submitted id is accepted when the secret starts with it
SecretMatches_startswith(secret_id) ==
    secret_id \in {HARDCODED_SECRET_ID, "1312202", ""}

SecretMatches(secret_id) == secret_id = HARDCODED_SECRET_ID

\* variant: the flag is assigned the outcome of the comparison
start_session_assign(secret_id) ==
    /\ nops < MaxOps
    /\ session_started' = SecretMatches(secret_id)
    /\ IF SecretMatches(secret_id)
       THEN /\ sent' = Append(sent, StartedBroadcast(connected))
            /\ calls' = Append(calls,
                   Handled("start_session", NoSid, secret_id, 200,
                           "Session started successfully!", Len(sent')))
       ELSE /\ sent' = sent
            /\ calls' = Append(calls,
                   Handled("start_session", NoSid, secret_id, 403,
                           "Invalid Secret ID. Authorization Required.",
                           Len(sent')))
    /\ UNCHANGED <<connected, used>>

\* variant: the broadcast is made only when the flag changes
start_session_once(secret_id) ==
    /\ nops < MaxOps
    /\ IF SecretMatches(secret_id)
       THEN /\ session_started' = TRUE
            /\ sent' = IF session_started THEN sent
                       ELSE Append(sent, StartedBroadcast(connected))
            /\ calls' = Append(calls,
                   Handled("start_session", NoSid, secret_id, 200,
                           "Session started successfully!", Len(sent')))
       ELSE /\ session_started' = session_started
            /\ sent' = sent
            /\ calls' = Append(calls,
                   Handled("start_session", NoSid, secret_id, 403,
                           "Invalid Secret ID. Authorization Required.",
                           Len(sent')))
    /\ UNCHANGED <<connected, used>>

\* variant: the endpoint toggles the session and broadcasts the new status
start_session_toggle(secret_id) ==
    /\ nops < MaxOps
    /\ IF SecretMatches(secret_id)
       THEN /\ session_started' = ~session_started
            /\ sent' = Append(sent, [event |-> "session_status",
                                     status |-> StatusOf(session_started'),
                                     message |-> "Session is now active!",
                                     payload |-> None, to |-> connected])
            /\ calls' = Append(calls,
                   Handled("start_session", NoSid, secret_id, 200,
                           "Session started successfully!", Len(sent')))
       ELSE /\ session_started' = session_started
            /\ sent' = sent
            /\ calls' = Append(calls,
                   Handled("start_session", NoSid, secret_id, 403,
                           "Invalid Secret ID. Authorization Required.",
                           Len(sent')))
    /\ UNCHANGED <<connected, used>>

\* variant: the optional session_status broadcast is left out
start_session_silent(secret_id) ==
    /\ nops < MaxOps
    /\ IF SecretMatches(secret_id)
       THEN /\ session_started' = TRUE
            /\ sent' = sent
            /\ calls' = Append(calls,
                   Handled("start_session", NoSid, secret_id, 200,
                           "Session started successfully!", Len(sent')))
       ELSE /\ session_started' = session_started
            /\ sent' = sent
            /\ calls' = Append(calls,
                   Handled("start_session", NoSid, secret_id, 403,
                           "Invalid Secret ID. Authorization Required.",
                           Len(sent')))
    /\ UNCHANGED <<connected, used>>

start_session(secret_id) ==
    /\ nops < MaxOps
    /\ IF SecretMatches(secret_id)
       THEN /\ session_started' = TRUE
            /\ sent' = Append(sent, StartedBroadcast(connected))
            /\ calls' = Append(calls,
                   Handled("start_session", NoSid, secret_id, 200,
                           "Session started successfully!", Len(sent')))
       ELSE /\ session_started' = session_started
            /\ sent' = sent
            /\ calls' = Append(calls,
                   Handled("start_session", NoSid, secret_id, 403,
                           "Invalid Secret ID. Authorization Required.",
                           Len(sent')))
    /\ UNCHANGED <<connected, used>>

\* ---- GET /tts ----
\* gTTS is an external service: it either produces audio or raises
tts(text, ok) ==
    /\ nops < MaxOps
    /\ calls' = Append(calls,
           IF ok THEN Handled("tts", NoSid, text, 200, "audio/mpeg", Len(sent))
                 ELSE Handled("tts", NoSid, text, 500, "TTS Error", Len(sent)))
    /\ UNCHANGED <<session_started, connected, used, sent>>

\* ---- Socket.IO events ----
\* the transport registers the new sid, then runs the connect handler
connect(sid) ==
    /\ nops < MaxOps
    /\ sid \notin used
    /\ connected' = connected \cup {sid}
    /\ used' = used \cup {sid}
    /\ sent' = Append(sent, StatusUpdate(session_started, connected', sid))
    /\ calls' = Append(calls, Handled("connect", sid, None, 0, None, Len(sent')))
    /\ UNCHANGED session_started

\* variant: the session ends when the last client leaves
disconnect_reset(sid) ==
    /\ nops < MaxOps
    /\ sid \in connected
    /\ connected' = connected \ {sid}
    /\ session_started' = (session_started /\ connected' # {})
    /\ calls' = Append(calls, Handled("disconnect", sid, None, 0, None, Len(sent)))
    /\ UNCHANGED <<used, sent>>

\* variant: the handler tells the remaining clients that one has left
disconnect_notify(sid) ==
    /\ nops < MaxOps
    /\ sid \in connected
    /\ connected' = connected \ {sid}
    /\ sent' = Append(sent, [event |-> "session_status", status |-> "left",
                             message |-> "Client disconnected", payload |-> None,
                             to |-> connected'])
    /\ calls' = Append(calls, Handled("disconnect", sid, None, 0, None, Len(sent')))
    /\ UNCHANGED <<session_started, used>>

\* the transport deregisters the sid; the handler only prints
disconnect(sid) ==
    /\ nops < MaxOps
    /\ sid \in connected
    /\ connected' = connected \ {sid}
    /\ calls' = Append(calls, Handled("disconnect", sid, None, 0, None, Len(sent)))
    /\ UNCHANGED <<session_started, used, sent>>

\* variant: the rejection branch does not return
player_win_fallthrough(sid, data) ==
    /\ nops < MaxOps
    /\ sid \in connected
    /\ IF ~session_started
       THEN sent' = sent \o <<NotStartedError(connected, sid),
                              Relay("bingo_win", data, connected)>>
       ELSE sent' = Append(sent, Relay("bingo_win", data, connected))
    /\ calls' = Append(calls, Handled("player_win", sid, data, 0, None, Len(sent')))
    /\ UNCHANGED <<session_started, connected, used>>

\* variant: the gate is the status the sender was told when it joined
player_win_connectgate(sid, data) ==
    /\ nops < MaxOps
    /\ sid \in connected
    /\ IF \E i \in 1..Len(sent) : /\ sent[i].message = "Session status update."
                                  /\ sent[i].to = {sid}
                                  /\ sent[i].status = "pending"
       THEN sent' = Append(sent, NotStartedError(connected, sid))
       ELSE sent' = Append(sent, Relay("bingo_win", data, connected))
    /\ calls' = Append(calls, Handled("player_win", sid, data, 0, None, Len(sent')))
    /\ UNCHANGED <<session_started, connected, used>>

\* variant: a payload that is not a win claim is rejected like an early event
player_win_strict(sid, data) ==
    /\ nops < MaxOps
    /\ sid \in connected
    /\ IF ~session_started \/ data # "{name:Alice,type:row}"
       THEN sent' = Append(sent, NotStartedError(connected, sid))
       ELSE sent' = Append(sent, Relay("bingo_win", data, connected))
    /\ calls' = Append(calls, Handled("player_win", sid, data, 0, None, Len(sent')))
    /\ UNCHANGED <<session_started, connected, used>>

player_win(sid, data) ==
    /\ nops < MaxOps
    /\ sid \in connected
    /\ IF ~session_started
       THEN sent' = Append(sent, NotStartedError(connected, sid))
       ELSE sent' = Append(sent, Relay("bingo_win", data, connected))
    /\ calls' = Append(calls, Handled("player_win", sid, data, 0, None, Len(sent')))
    /\ UNCHANGED <<session_started, connected, used>>

\* variant: the rejection branch does not return
master_draw_noreturn(sid, data) ==
    /\ nops < MaxOps
    /\ sid \in connected
    /\ IF ~session_started
       THEN sent' = sent \o <<NotStartedError(connected, sid),
                              Relay("number_drawn", data, connected)>>
       ELSE sent' = Append(sent, Relay("number_drawn", data, connected))
    /\ calls' = Append(calls, Handled("master_draw", sid, data, 0, None, Len(sent')))
    /\ UNCHANGED <<session_started, connected, used>>

\* variant: the broadcast skips the sender (skip_sid=sid)
master_draw_skipsender(sid, data) ==
    /\ nops < MaxOps
    /\ sid \in connected
    /\ IF ~session_started
       THEN sent' = Append(sent, NotStartedError(connected, sid))
       ELSE sent' = Append(sent, Relay("number_drawn", data, connected \ {sid}))
    /\ calls' = Append(calls, Handled("master_draw", sid, data, 0, None, Len(sent')))
    /\ UNCHANGED <<session_started, connected, used>>

\* variant: the authorization check is missing
master_draw_ungated(sid, data) ==
    /\ nops < MaxOps
    /\ sid \in connected
    /\ sent' = Append(sent, Relay("number_drawn", data, connected))
    /\ calls' = Append(calls, Handled("master_draw", sid, data, 0, None, Len(sent')))
    /\ UNCHANGED <<session_started, connected, used>>

\* variant: only the first connection that joined (the master) may draw
master_draw_masteronly(sid, data) ==
    /\ nops < MaxOps
    /\ sid \in connected
    /\ LET first == CHOOSE k \in 1..Len(calls) :
                        /\ calls[k].op = "connect"
                        /\ \A m \in 1..(k - 1) : calls[m].op # "connect"
       IN IF ~session_started \/ sid # calls[first].sid
          THEN sent' = Append(sent, NotStartedError(connected, sid))
          ELSE sent' = Append(sent, Relay("number_drawn", data, connected))
    /\ calls' = Append(calls, Handled("master_draw", sid, data, 0, None, Len(sent')))
    /\ UNCHANGED <<session_started, connected, used>>

master_draw(sid, data) ==
    /\ nops < MaxOps
    /\ sid \in connected
    /\ IF ~session_started
       THEN sent' = Append(sent, NotStartedError(connected, sid))
       ELSE sent' = Append(sent, Relay("number_drawn", data, connected))
    /\ calls' = Append(calls, Handled("master_draw", sid, data, 0, None, Len(sent')))
    /\ UNCHANGED <<session_started, connected, used>>

Next ==
    \/ \E secret_id \in SubmittedIds : start_session(secret_id)
    \/ \E text \in Texts, ok \in BOOLEAN : tts(text, ok)
    \/ \E sid \in Sids : connect(sid)
    \/ \E sid \in Sids : disconnect(sid)
    \/ \E sid \in Sids, data \in Payloads : player_win(sid, data)
    \/ \E sid \in Sids, data \in Payloads : master_draw(sid, data)

Spec == Init /\ [][Next]_vars

TypeOK ==
    /\ session_started \in BOOLEAN
    /\ connected \subseteq used
    /\ used \subseteq Sids
    /\ nops \in 0..MaxOps
    /\ last.nsent = Len(sent)
    /\ Len(sent) <= nops

\* ---- properties ----
\* the step handled one operation
Stepped == Len(calls') = Len(calls) + 1

\* the emit calls made by the step
NewSent == SubSeq(sent', Len(sent) + 1, Len(sent'))

\* C1: a start_session call with a secret_id other than the configured one
\* answers 403, leaves session_started as it was and emits nothing.
C1_WrongSecretRejected ==
    [][(Stepped /\ last'.op = "start_session"
                /\ last'.arg # HARDCODED_SECRET_ID)
        => /\ last'.code = 403
           /\ session_started' = session_started
           /\ NewSent = <<>>]_vars

\* a wrong secret was rejected while the session was started and clients
\* were connected
C1_Witness ==
    /\ last.op = "start_session"
    /\ last.arg # HARDCODED_SECRET_ID
    /\ last.code = 403
    /\ session_started
    /\ Cardinality(connected) >= 2

\* C2: a start_session call with the configured secret answers 200, leaves
\* session_started true and emits exactly one session_status "started"
\* addressed to every connection registered at the time of the call.
C2_RightSecretStarts ==
    [][(Stepped /\ last'.op = "start_session"
                /\ last'.arg = HARDCODED_SECRET_ID)
        => /\ last'.code = 200
           /\ session_started' = TRUE
           /\ Len(NewSent) = 1
           /\ NewSent[1].event = "session_status"
           /\ NewSent[1].status = "started"
           /\ NewSent[1].to = connected]_vars

\* the session was started with two connections joined, and both were
\* addressed
C2_Witness ==
    /\ last.op = "start_session"
    /\ last.code = 200
    /\ Len(sent) >= 1
    /\ sent[Len(sent)].event = "session_status"
    /\ sent[Len(sent)].status = "started"
    /\ Cardinality(sent[Len(sent)].to) = 2
    /\ sent[Len(sent)].to = connected

\* C3: a master_draw handled while session_started is false emits no
\* number_drawn, emits exactly one error addressed to the sender only, and
\* leaves session_started false.
C3_DrawRejected ==
    [][(Stepped /\ last'.op = "master_draw" /\ ~session_started)
        => /\ Len(NewSent) = 1
           /\ NewSent[1].event = "error"
           /\ NewSent[1].to = {last'.sid}
           /\ session_started' = FALSE]_vars

\* a draw was rejected while another client was connected
C3_Witness ==
    /\ last.op = "master_draw"
    /\ ~session_started
    /\ Cardinality(connected) >= 2
    /\ sent[Len(sent)].event = "error"
    /\ sent[Len(sent)].to = {last.sid}

\* C4: a master_draw handled while session_started is true emits, whatever
\* the payload, exactly one number_drawn carrying that payload, addressed to
\* every registered connection including the sender, and no error.
C4_DrawRelayed ==
    [][(Stepped /\ last'.op = "master_draw" /\ session_started)
        => /\ Len(NewSent) = 1
           /\ NewSent[1].event = "number_drawn"
           /\ NewSent[1].payload = last'.arg
           /\ NewSent[1].to = connected
           /\ last'.sid \in NewSent[1].to]_vars

\* a draw carrying a payload that is not a draw event was relayed to three
\* connections
C4_Witness ==
    /\ last.op = "master_draw"
    /\ last.arg = "{name:Alice,type:row}"
    /\ Len(sent) >= 1
    /\ sent[Len(sent)].event = "number_drawn"
    /\ sent[Len(sent)].payload = last.arg
    /\ Cardinality(sent[Len(sent)].to) = 3
    /\ last.sid \in sent[Len(sent)].to

\* C5: a player_win handled while session_started is true emits, whatever
\* the payload, exactly one bingo_win carrying that payload, addressed to
\* every registered connection including the sender, and no error.
C5_WinRelayed ==
    [][(Stepped /\ last'.op = "player_win" /\ session_started)
        => /\ Len(NewSent) = 1
           /\ NewSent[1].event = "bingo_win"
           /\ NewSent[1].payload = last'.arg
           /\ NewSent[1].to = connected
           /\ last'.sid \in NewSent[1].to]_vars

\* a win claim carrying a payload that is not a win claim was relayed to
\* two connections
C5_Witness ==
    /\ last.op = "player_win"
    /\ last.arg = "{number:7}"
    /\ Len(sent) >= 1
    /\ sent[Len(sent)].event = "bingo_win"
    /\ sent[Len(sent)].payload = last.arg
    /\ Cardinality(sent[Len(sent)].to) >= 2
    /\ last.sid \in sent[Len(sent)].to

\* C6: a player_win handled while session_started is false emits no
\* bingo_win, emits exactly one error addressed to the sender only, and
\* leaves session_started false.
C6_WinRejected ==
    [][(Stepped /\ last'.op = "player_win" /\ ~session_started)
        => /\ Len(NewSent) = 1
           /\ NewSent[1].event = "error"
           /\ NewSent[1].to = {last'.sid}
           /\ session_started' = FALSE]_vars

\* a win claim was rejected while another client was connected
C6_Witness ==
    /\ last.op = "player_win"
    /\ ~session_started
    /\ Cardinality(connected) >= 2
    /\ sent[Len(sent)].event = "error"
    /\ sent[Len(sent)].to = {last.sid}

\* a start_session call with the configured secret is among the first n
\* handled operations
AuthorizedWithin(n) ==
    \E j \in 1..n : /\ calls[j].op = "start_session"
                    /\ calls[j].arg = HARDCODED_SECRET_ID

\* C7: connect emits exactly one session_status, addressed to the new
\* connection only, with status "started" if session_started is true and
\* "pending" otherwise; so it is "pending" before any start_session call
\* with the configured secret and "started" after one.
C7_ConnectReportsStatus ==
    [][(Stepped /\ last'.op = "connect")
        => /\ Len(NewSent) = 1
           /\ NewSent[1].event = "session_status"
           /\ NewSent[1].to = {last'.sid}
           /\ NewSent[1].status =
                  (IF session_started THEN "started" ELSE "pending")
           /\ (NewSent[1].status = "started") = AuthorizedWithin(Len(calls))
           /\ (NewSent[1].status = "pending") = ~AuthorizedWithin(Len(calls))]_vars

\* a third connection joined after the session was started with two
\* connections present, and was told "started"
C7_Witness ==
    /\ last.op = "connect"
    /\ Cardinality(connected) = 3
    /\ sent[Len(sent)].event = "session_status"
    /\ sent[Len(sent)].status = "started"
    /\ sent[Len(sent)].to = {last.sid}
    /\ \E i \in 1..(Len(sent) - 1) :
          /\ sent[i].message = "Session is now active!"
          /\ Cardinality(sent[i].to) = 2

\* C8: session_started is false initially and, once true, stays true.
C8_StartedMonotonic ==
    /\ session_started = FALSE
    /\ [][session_started => session_started']_vars

\* the session is still started after a wrong secret, a disconnect and a
\* relayed event followed the authorization
C8_Witness ==
    /\ session_started
    /\ \E j \in 1..Len(calls) :
          /\ calls[j].op = "start_session" /\ calls[j].code = 200
          /\ \E k \in (j + 1)..Len(calls) :
                calls[k].op = "start_session" /\ calls[k].code = 403
          /\ \E k \in (j + 1)..Len(calls) : calls[k].op = "disconnect"

\* C9: only a start_session call with the configured secret changes
\* session_started; every other operation leaves it as it was.
C9_SoleWriter ==
    [][(session_started' # session_started)
        => /\ Stepped
           /\ last'.op = "start_session"
           /\ last'.arg = HARDCODED_SECRET_ID]_vars

\* a failed tts request, a disconnect and a rejected event were handled and
\* the flag is still false
C9_Witness ==
    /\ ~session_started
    /\ \E j \in 1..Len(calls) : calls[j].op = "tts" /\ calls[j].code = 500
    /\ \E j \in 1..Len(calls) : calls[j].op = "disconnect"
    /\ \E j \in 1..Len(calls) : calls[j].op \in {"master_draw", "player_win"}
    /\ \E j \in 1..Len(calls) : calls[j].op = "start_session"

\* the start_session calls made with the configured secret
RightCalls ==
    {j \in 1..Len(calls) : /\ calls[j].op = "start_session"
                           /\ calls[j].arg = HARDCODED_SECRET_ID}

\* the session_status "started" broadcasts made by start_session
StartedBroadcasts ==
    {i \in 1..Len(sent) : /\ sent[i].event = "session_status"
                          /\ sent[i].status = "started"
                          /\ sent[i].message = "Session is now active!"}

\* C10: after n >= 1 start_session calls with the configured secret the flag
\* is true as after one, each of the n calls answered 200, and exactly n
\* "started" broadcasts were made; a repeated call changes nothing else.
C10_StartIdempotent ==
    /\ [](/\ Cardinality(StartedBroadcasts) = Cardinality(RightCalls)
          /\ \A j \in RightCalls : calls[j].code = 200
          /\ (RightCalls # {}) => session_started)
    /\ [][(Stepped /\ last'.op = "start_session"
                   /\ last'.arg = HARDCODED_SECRET_ID /\ session_started)
           => /\ session_started' = session_started
              /\ connected' = connected
              /\ used' = used
              /\ Len(NewSent) = 1]_vars

\* the configured secret was submitted three times with a client connected
C10_Witness ==
    /\ Cardinality(RightCalls) = 3
    /\ Cardinality(StartedBroadcasts) = 3
    /\ connected # {}
    /\ session_started

\* the relayed event kinds and the event each is relayed as
RelayOps == {"master_draw", "player_win"}

RelayEventOf(op) == IF op = "master_draw" THEN "number_drawn" ELSE "bingo_win"

\* indexes in the emit log of the emits made by the j-th handled operation
EmitsOf(j) ==
    {i \in 1..Len(sent) :
        /\ i > (IF j = 1 THEN 0 ELSE calls[j - 1].nsent)
        /\ i <= calls[j].nsent}

\* the connections registered when the j-th handled operation ran, as the
\* history of connects and disconnects up to it gives them
ConnectedAt(j) ==
    {s \in Sids :
        \E k \in 1..j :
            /\ calls[k].op = "connect"
            /\ calls[k].sid = s
            /\ \A m \in k..j : ~(calls[m].op = "disconnect" /\ calls[m].sid = s)}

\* the j-th operation was rejected: its only emit is an error to its sender
GatedOut(j) ==
    \E i \in EmitsOf(j) :
        /\ EmitsOf(j) = {i}
        /\ sent[i].event = "error"
        /\ sent[i].to = {calls[j].sid}

\* the j-th operation was relayed: its only emit is the relay event,
\* addressed to every connection registered while it was handled
FullyBroadcast(j) ==
    \E i \in EmitsOf(j) :
        /\ EmitsOf(j) = {i}
        /\ sent[i].event = RelayEventOf(calls[j].op)
        /\ sent[i].payload = calls[j].arg
        /\ sent[i].to = ConnectedAt(j)

\* C11: in every order of the handlers, each master_draw or player_win is
\* either gated out (one error to the sender, no broadcast) or fully
\* broadcast (one relay to every registered connection, no error), never
\* both and never a relay to only part of the connections.
C11_GatedOrBroadcast ==
    \A j \in 1..Len(calls) :
        (calls[j].op \in RelayOps)
        => /\ GatedOut(j) \/ FullyBroadcast(j)
           /\ ~(GatedOut(j) /\ FullyBroadcast(j))
           /\ \A i \in EmitsOf(j) :
                 sent[i].event # "error" => sent[i].to = ConnectedAt(j)

\* one event was gated out and, after the authorization, a later one was
\* broadcast to two connections
C11_Witness ==
    \E j1, j2 \in 1..Len(calls) :
        /\ j1 < j2
        /\ calls[j1].op \in RelayOps
        /\ calls[j2].op \in RelayOps
        /\ GatedOut(j1)
        /\ FullyBroadcast(j2)
        /\ Cardinality(ConnectedAt(j1)) >= 2
        /\ Cardinality(ConnectedAt(j2)) >= 2

\* the i-th emit came after a start_session call with the configured secret
\* had answered 200
AuthorizedBeforeEmit(i) ==
    \E j \in 1..Len(calls) :
        /\ calls[j].op = "start_session"
        /\ calls[j].arg = HARDCODED_SECRET_ID
        /\ calls[j].code = 200
        /\ calls[j].nsent < i

\* C12: every number_drawn or bingo_win in the emit log is preceded by a
\* start_session call with the configured secret.
C12_RelayOnlyAfterAuthorization ==
    \A i \in 1..Len(sent) :
        (sent[i].event \in {"number_drawn", "bingo_win"})
        => AuthorizedBeforeEmit(i)

\* after a rejected event and a refused wrong secret, the configured secret
\* was submitted and an event was relayed to a connection
C12_Witness ==
    /\ \E i \in 1..Len(sent) :
          /\ sent[i].event \in {"number_drawn", "bingo_win"}
          /\ sent[i].to # {}
          /\ \E k \in 1..(i - 1) : sent[k].event = "error"
    /\ \E j \in 1..Len(calls) :
          /\ calls[j].op = "start_session" /\ calls[j].code = 403
          /\ ~AuthorizedWithin(j)

\* the handled operation that made the i-th emit
CallOf(i) == CHOOSE j \in 1..Len(calls) : i \in EmitsOf(j)

\* the i-th emit is one of the room-less broadcasts
IsBroadcast(i) ==
    \/ sent[i].event \in {"number_drawn", "bingo_win"}
    \/ sent[i].event = "session_status" /\ sent[i].message = "Session is now active!"

\* C13: a disconnect emits nothing and leaves session_started unchanged;
\* the disconnected connection is addressed by no later emit, and every
\* later broadcast still addresses all connections that remain registered.
C13_DisconnectSilent ==
    /\ [](\A j \in 1..Len(calls) :
            (calls[j].op = "disconnect")
            => /\ EmitsOf(j) = {}
               /\ \A i \in (calls[j].nsent + 1)..Len(sent) :
                     /\ calls[j].sid \notin sent[i].to
                     /\ IsBroadcast(i) => sent[i].to = ConnectedAt(CallOf(i)))
    /\ [][(Stepped /\ last'.op = "disconnect")
           => /\ session_started' = session_started
              /\ NewSent = <<>>
              /\ connected' = connected \ {last'.sid}]_vars

\* a connection left a started session and a later event was relayed to the
\* connections that remained, not to the one that left
C13_Witness ==
    /\ session_started
    /\ \E j \in 1..Len(calls) :
          /\ calls[j].op = "disconnect"
          /\ AuthorizedWithin(j)
          /\ \E i \in (calls[j].nsent + 1)..Len(sent) :
                /\ sent[i].event \in {"number_drawn", "bingo_win"}
                /\ sent[i].to # {}
                /\ sent[i].to = connected
                /\ calls[j].sid \notin sent[i].to

\* the connection was told "pending" when it joined
JoinedPending(s) ==
    \E i \in 1..Len(sent) :
        /\ sent[i].event = "session_status"
        /\ sent[i].message = "Session status update."
        /\ sent[i].status = "pending"
        /\ sent[i].to = {s}

\* an event of the connection was rejected before the j-th operation
RejectedBefore(s, j) ==
    \E k \in 1..(j - 1) :
        /\ calls[k].op \in RelayOps
        /\ calls[k].sid = s
        /\ GatedOut(k)

\* C14: the gate is evaluated per event: once a start_session call with the
\* configured secret has been handled, a master_draw or player_win of a
\* connection that joined while the session was pending, or that had an
\* earlier event rejected, is relayed to every registered connection.
C14_GatePerEvent ==
    \A j \in 1..Len(calls) :
        (/\ calls[j].op \in RelayOps
         /\ AuthorizedWithin(j - 1)
         /\ JoinedPending(calls[j].sid) \/ RejectedBefore(calls[j].sid, j))
        => /\ FullyBroadcast(j)
           /\ calls[j].sid \in ConnectedAt(j)

\* a connection joined while pending, had an event rejected, and after the
\* authorization had an event relayed to itself and another connection
C14_Witness ==
    \E j \in 1..Len(calls) :
        /\ calls[j].op \in RelayOps
        /\ AuthorizedWithin(j - 1)
        /\ JoinedPending(calls[j].sid)
        /\ RejectedBefore(calls[j].sid, j)
        /\ FullyBroadcast(j)
        /\ Cardinality(ConnectedAt(j)) >= 2

\* C15: once a start_session call with the configured secret has answered
\* 200, no error is emitted any more: every error in the emit log precedes
\* every such call.
C15_NoRejectionAfterAuthorization ==
    \A i \in 1..Len(sent) :
        (sent[i].event = "error") => ~AuthorizedBeforeEmit(i)

\* an event was rejected before the authorization, and after it a
\* master_draw and a player_win were both handled without an error
C15_Witness ==
    \E j \in 1..Len(calls) :
        /\ calls[j].op = "start_session"
        /\ calls[j].code = 200
        /\ \E i \in 1..calls[j].nsent : sent[i].event = "error"
        /\ \E k1, k2 \in (j + 1)..Len(calls) :
              /\ calls[k1].op = "master_draw"
              /\ calls[k2].op = "player_win"
        /\ \A i \in (calls[j].nsent + 1)..Len(sent) : sent[i].event # "error"

\* two handled events of the same kind with the same payload, handled under
\* the same gate value and the same set of registered connections
SameSituation(j1, j2) ==
    /\ calls[j1].op \in RelayOps
    /\ calls[j2].op = calls[j1].op
    /\ calls[j2].arg = calls[j1].arg
    /\ AuthorizedWithin(j1 - 1) = AuthorizedWithin(j2 - 1)
    /\ ConnectedAt(j1) = ConnectedAt(j2)

\* C16: the outcome of master_draw and player_win does not depend on the
\* sender or its past: two events of the same kind and payload, handled
\* under the same gate value and registry, make the same single emit; when
\* relayed the emits are equal, when rejected they differ only in the
\* addressee, which is the respective sender.
C16_SenderIndependent ==
    \A j1, j2 \in 1..Len(calls) :
        SameSituation(j1, j2)
        => /\ EmitsOf(j1) = {calls[j1].nsent}
           /\ EmitsOf(j2) = {calls[j2].nsent}
           /\ LET m1 == sent[calls[j1].nsent]
                  m2 == sent[calls[j2].nsent]
              IN IF AuthorizedWithin(j1 - 1)
                 THEN /\ m1 = m2
                      /\ m1.event = RelayEventOf(calls[j1].op)
                 ELSE /\ [m1 EXCEPT !.to = {}] = [m2 EXCEPT !.to = {}]
                      /\ m1.event = "error"
                      /\ m1.to = {calls[j1].sid}
                      /\ m2.to = {calls[j2].sid}

\* a connection that joined while pending and one that joined after the
\* authorization emitted the same event and got the same broadcast
C16_Witness ==
    \E j1, j2 \in 1..Len(calls) :
        /\ SameSituation(j1, j2)
        /\ calls[j1].sid # calls[j2].sid
        /\ JoinedPending(calls[j1].sid)
        /\ ~JoinedPending(calls[j2].sid)
        /\ AuthorizedWithin(j1 - 1)
        /\ sent[calls[j1].nsent] = sent[calls[j2].nsent]
        /\ sent[calls[j1].nsent].to = {calls[j1].sid, calls[j2].sid}

\* the message is a session_status with the given status
IsStatus(m, status) == m.event = "session_status" /\ m.status = status

\* C17: in every order of connect and start_session handlers, no connection
\* is sent a session_status "pending" after a session_status "started".
C17_NoPendingAfterStarted ==
    \A s \in Sids :
        \A i, j \in 1..Len(Inbox(s)) :
            (i < j /\ IsStatus(Inbox(s)[i], "started"))
            => ~IsStatus(Inbox(s)[j], "pending")

\* one connection joined just before the authorization (pending, then the
\* broadcast), another just after it (started on join), and the secret was
\* submitted again
C17_Witness ==
    \E s1, s2 \in Sids :
        /\ Len(Inbox(s1)) >= 3
        /\ IsStatus(Inbox(s1)[1], "pending")
        /\ IsStatus(Inbox(s1)[2], "started")
        /\ IsStatus(Inbox(s1)[3], "started")
        /\ Len(Inbox(s2)) >= 1
        /\ IsStatus(Inbox(s2)[1], "started")
        /\ Inbox(s2)[1].message = "Session status update."

\* C18: every connection is sent a session_status "started", on joining or
\* by the authorization broadcast, before its first number_drawn or
\* bingo_win.
C18_StartedBeforeFirstRelay ==
    \A s \in Sids :
        \A j \in 1..Len(Inbox(s)) :
            (Inbox(s)[j].event \in {"number_drawn", "bingo_win"})
            => \E i \in 1..(j - 1) : IsStatus(Inbox(s)[i], "started")

\* a relayed event reached a connection that had learnt "started" from the
\* broadcast and one that had learnt it on joining
C18_Witness ==
    \E s1, s2 \in Sids :
        /\ Len(Inbox(s1)) = 3
        /\ IsStatus(Inbox(s1)[1], "pending")
        /\ Inbox(s1)[2].message = "Session is now active!"
        /\ Inbox(s1)[3].event \in {"number_drawn", "bingo_win"}
        /\ Len(Inbox(s2)) = 2
        /\ IsStatus(Inbox(s2)[1], "started")
        /\ Inbox(s2)[1].message = "Session status update."
        /\ Inbox(s2)[2] = Inbox(s1)[3]

====
